---------------------------- MODULE Spec2Model ----------------------------
(***************************************************************************)
(* Model of src/main.py: the ProText analyzer.  One request handler,       *)
(* analyze_text, and one helper, count_syllables.                          *)
(*                                                                         *)
(* A text and a word are sequences of one-character strings.  Decimal      *)
(* results are kept as integers in the unit of their last reported digit:  *)
(* the grade level in tenths, the two averages in hundredths.              *)
(***************************************************************************)
EXTENDS Integers, Sequences, FiniteSets, TLC

VARIABLES
    text,             \* request.text of the request being served
    words,            \* the word list of line 43 (word-level specifications)
    word_count,       \* line 46 (count-level specification)
    sentence_count,   \* line 47
    total_syllables,  \* line 54 (count-level specification)
    word,             \* the argument of count_syllables (SpecSyllables)
    syllables,        \* what count_syllables returned: running count and result
    hash_seed,        \* the process's string-hash seed, which orders list(set)
    fp_tie_up,        \* direction the float evaluation error pushes a decimal tie
    calls,            \* number of calls served so far
    response,         \* the outcome of the last call
    previous          \* the outcome of the call before it

vars == <<text, words, word_count, sentence_count, total_syllables, word,
          syllables, hash_seed, fp_tie_up, calls, response, previous>>

None == [status |-> "none"]

-----------------------------------------------------------------------------
(* Characters *)

UpperCase == <<"A","B","C","D","E","F","G","H","I","J","K","L","M",
               "N","O","P","Q","R","S","T","U","V","W","X","Y","Z">>
LowerCase == <<"a","b","c","d","e","f","g","h","i","j","k","l","m",
               "n","o","p","q","r","s","t","u","v","w","x","y","z">>
Digits == {"0","1","2","3","4","5","6","7","8","9"}

Range(s) == {s[i] : i \in DOMAIN s}

Letters == Range(UpperCase) \cup Range(LowerCase)

\* [a-zA-Z]
IsLetter(c) == c \in Letters

\* \w of the re module on ASCII: letters, digits and the underscore
IsWordChar(c) == c \in Letters \/ c \in Digits \/ c = "_"

\* what str.strip() removes
IsSpace(c) == c \in {" ", "\t", "\n", "\r"}

\* [.!?]
IsTerminator(c) == c \in {".", "!", "?"}

LowerOf ==
    [c \in Range(UpperCase) |->
        LowerCase[CHOOSE i \in DOMAIN UpperCase : UpperCase[i] = c]]

\* str.lower() on one character
LowerChar(c) == IF c \in DOMAIN LowerOf THEN LowerOf[c] ELSE c

\* str.lower()
Lower(s) == [i \in DOMAIN s |-> LowerChar(s[i])]

-----------------------------------------------------------------------------
(* count_syllables, lines 15-32 *)

vowels == {"a", "e", "i", "o", "u", "y"}

\* word.endswith(suffix)
EndsWith(w, suffix) ==
    /\ Len(w) >= Len(suffix)
    /\ \A i \in DOMAIN suffix : w[Len(w) - Len(suffix) + i] = suffix[i]

\* lines 19-25: the vowel-group starts of a lowercase word
VowelGroups(w) ==
    (IF w[1] \in vowels THEN 1 ELSE 0)
    + Cardinality({index \in 2..Len(w) :
                     w[index] \in vowels /\ w[index - 1] \notin vowels})

\* lines 26-27: the silent-e decrement
SilentE(w, count) == IF EndsWith(w, <<"e">>) THEN count - 1 ELSE count

\* mutant of SyllabicLe: the "-le" rule left out
SyllabicLe_Never(w, count) == count

\* lines 28-29: the "-le" increment; word[-3] is the third character from the end
SyllabicLe(w, count) ==
    IF EndsWith(w, <<"l", "e">>) /\ Len(w) > 2 /\ w[Len(w) - 2] \notin vowels
    THEN count + 1 ELSE count

\* mutant of FloorAtOne: the floor left out
FloorAtOne_Skipped(count) == count

\* lines 30-31
FloorAtOne(count) == IF count = 0 THEN count + 1 ELSE count

\* the count after line 27, for a word that passes line 17
RunningCount(w0) == SilentE(Lower(w0), VowelGroups(Lower(w0)))

count_syllables(w0) ==
    LET w == Lower(w0) IN
    IF Len(w) <= 3 THEN 1
    ELSE FloorAtOne(SyllabicLe(w, SilentE(w, VowelGroups(w))))

-----------------------------------------------------------------------------
(* Text parsing, lines 38-47 *)

MIN_TEXT_LENGTH == 20

RECURSIVE LStrip(_)
LStrip(s) == IF s # <<>> /\ IsSpace(Head(s)) THEN LStrip(Tail(s)) ELSE s

RECURSIVE RStrip(_)
RStrip(s) ==
    IF s # <<>> /\ IsSpace(s[Len(s)]) THEN RStrip(SubSeq(s, 1, Len(s) - 1)) ELSE s

\* str.strip(): the text without its leading and trailing whitespace
Strip(s) == RStrip(LStrip(s))

\* line 38: not text or len(text.strip()) < 20
TooShort(s) == Len(s) = 0 \/ Len(Strip(s)) < MIN_TEXT_LENGTH

\* \b at position i (before s[i]; Len(s) + 1 is the end): exactly one side is \w
WordBoundary(s, i) ==
    LET before == i > 1 /\ IsWordChar(s[i - 1])
        after  == i <= Len(s) /\ IsWordChar(s[i])
    IN before # after

RECURSIVE LetterRunEnd(_, _)
\* the position after the letters that start at position i
LetterRunEnd(s, i) ==
    IF i <= Len(s) /\ IsLetter(s[i]) THEN LetterRunEnd(s, i + 1) ELSE i

\* \b[a-zA-Z]+\b tried at position i: the position after the match, 0 for no
\* match. The letter run is taken greedily and given back one letter at a time
\* until the closing \b holds.
MatchWordAt(s, i) ==
    IF ~WordBoundary(s, i) THEN 0
    ELSE LET ends == {j \in (i + 1)..LetterRunEnd(s, i) : WordBoundary(s, j)}
         IN IF ends = {} THEN 0
            ELSE CHOOSE j \in ends : \A k \in ends : k <= j

\* re.findall from position pos on: non-overlapping matches, left to right
RECURSIVE FindAllFrom(_, _)
FindAllFrom(s, pos) ==
    IF pos > Len(s) THEN <<>>
    ELSE LET j == MatchWordAt(s, pos) IN
         IF j > 0 THEN <<SubSeq(s, pos, j - 1)>> \o FindAllFrom(s, j)
         ELSE FindAllFrom(s, pos + 1)

\* line 43: re.findall(r'\b[a-zA-Z]+\b', text.lower())
FindWords(s) == LET lowered == Lower(s) IN FindAllFrom(lowered, 1)

\* re.split(r'[.!?]+', text) from position pos on, cur the piece being read
RECURSIVE SplitFrom(_, _, _)
SplitFrom(s, pos, cur) ==
    IF pos > Len(s) THEN <<cur>>
    ELSE IF IsTerminator(s[pos])
    THEN LET rest == {j \in pos..Len(s) : ~IsTerminator(s[j])}
             next == IF rest = {} THEN Len(s) + 1
                     ELSE CHOOSE j \in rest : \A k \in rest : j <= k
         IN <<cur>> \o SplitFrom(s, next, <<>>)
    ELSE SplitFrom(s, pos + 1, Append(cur, s[pos]))

\* mutant of NonBlank: one character is not enough
NonBlank_Long(piece) == Len(Strip(piece)) > 1

NonBlank(piece) == Len(Strip(piece)) > 0

\* line 44: the pieces between terminator runs that are not blank
Sentences(s) == SelectSeq(SplitFrom(s, 1, <<>>), NonBlank)

-----------------------------------------------------------------------------
(* Scoring, lines 54-62 *)

RECURSIVE SumSyllables(_)
\* line 54
SumSyllables(ws) ==
    IF ws = <<>> THEN 0 ELSE count_syllables(Head(ws)) + SumSyllables(Tail(ws))

\* round(n / d) for d > 0. A value half way between two results goes where the
\* error of the double-precision evaluation pushes it, which the model does not
\* compute: up when tie_up, down otherwise.
RoundDiv(n, d, tie_up) ==
    LET floor_half == (2 * n + d) \div (2 * d) IN
    IF (2 * n + d) % (2 * d) = 0 /\ ~tie_up THEN floor_half - 1 ELSE floor_half

\* 0.39 * (W / S) + 11.8 * (T / W) - 15.59 as one exact fraction over 100 * S * W
FkNumerator(W, S, T) == 39 * W * W + 1180 * T * S - 1559 * S * W
FkDenominator(W, S) == 100 * S * W

Max(a, b) == IF a >= b THEN a ELSE b

\* lines 91-92: round(avg, 2), in hundredths
RoundedAverage(n, d, tie_up) == RoundDiv(100 * n, d, tie_up)

\* mutant of FkGrade: the grade computed from the averages as reported
FkGrade_FromRounded(W, S, T, tie_up) ==
    Max(0, RoundDiv(10 * (39 * RoundedAverage(W, S, tie_up)
                          + 1180 * RoundedAverage(T, W, tie_up) - 155900),
                    10000, tie_up))

\* lines 58-62: max(0, round(fk_grade, 1)), in tenths
FkGrade(W, S, T, tie_up) ==
    Max(0, RoundDiv(10 * FkNumerator(W, S, T), FkDenominator(W, S), tie_up))

\* line 96: round(fk_grade) of a grade in tenths; the halves x.5 are exact
\* doubles, which round() sends to the even neighbour
RoundGrade(fk10) ==
    LET lo == fk10 \div 10 IN
    IF fk10 % 10 = 5 THEN (IF lo % 2 = 0 THEN lo ELSE lo + 1)
    ELSE IF fk10 % 10 > 5 THEN lo + 1 ELSE lo

-----------------------------------------------------------------------------
(* Academic vocabulary, lines 67-71 and 101-102 *)

VOCABULARY_SAMPLE == 15

\* mutant of IsAcademic: the length-only predicate
IsAcademic_Simple(w) == Len(w) >= 8

\* line 69
IsAcademic(w) == Len(w) >= 9 \/ (Len(w) >= 7 /\ count_syllables(w) >= 3)

\* lines 67-70
AcademicWords(ws) == {ws[i] : i \in {j \in DOMAIN ws : IsAcademic(ws[j])}}

RECURSIVE FirstSeenFrom(_, _, _)
\* the members of set in the order of their first occurrence in ws
FirstSeenFrom(ws, set, seen) ==
    IF ws = <<>> THEN <<>>
    ELSE IF Head(ws) \in set /\ Head(ws) \notin seen
    THEN <<Head(ws)>> \o FirstSeenFrom(Tail(ws), set, seen \cup {Head(ws)})
    ELSE FirstSeenFrom(Tail(ws), set, seen)

Rotate(s, k) == [i \in DOMAIN s |-> s[((i - 1 + k) % Len(s)) + 1]]
Reverse(s) == [i \in DOMAIN s |-> s[Len(s) + 1 - i]]

\* line 71: list(academic_words), the set filled from ws. A set of str iterates
\* in the order of its hash table, which the process's hash seed fixes and the
\* order of insertion does not: some arrangement of the members, the same one
\* for the same seed and the same insertions. The arrangements modelled are the
\* rotations of the first-seen order and their reversals (which are all the
\* arrangements of up to 3 words).
ListOfSet(set, ws, seed) ==
    LET first_seen == FirstSeenFrom(ws, set, {}) IN
    IF first_seen = <<>> THEN <<>>
    ELSE LET turned == Rotate(first_seen, seed.rot % Len(first_seen))
         IN IF seed.rev THEN Reverse(turned) ELSE turned

\* line 102: academic_words_list[:15]
Sample(list) ==
    SubSeq(list, 1, IF Len(list) < VOCABULARY_SAMPLE THEN Len(list)
                    ELSE VOCABULARY_SAMPLE)

-----------------------------------------------------------------------------
(* Proficiency, lines 74-82 *)

\* mutant of Proficiency: open lower boundaries
Proficiency_Strict(fk10) ==
    IF fk10 > 120
    THEN [estimated_cefr_level |-> "C1/C2 (Advanced/Proficient)",
          estimated_ielts_band |-> "7.5+"]
    ELSE IF fk10 > 90
    THEN [estimated_cefr_level |-> "B2 (Upper Intermediate)",
          estimated_ielts_band |-> "6.0 - 7.0"]
    ELSE [estimated_cefr_level |-> "B1 (Intermediate)",
          estimated_ielts_band |-> "5.0 - 5.5"]

Proficiency(fk10) ==
    IF fk10 >= 120
    THEN [estimated_cefr_level |-> "C1/C2 (Advanced/Proficient)",
          estimated_ielts_band |-> "7.5+"]
    ELSE IF fk10 >= 90
    THEN [estimated_cefr_level |-> "B2 (Upper Intermediate)",
          estimated_ielts_band |-> "6.0 - 7.0"]
    ELSE [estimated_cefr_level |-> "B1 (Intermediate)",
          estimated_ielts_band |-> "5.0 - 5.5"]

-----------------------------------------------------------------------------
(* The response, lines 85-104, and the handler *)

\* lines 87-93
Metrics(W, S, T, tie_up) ==
    [total_words |-> W,
     total_sentences |-> S,
     total_syllables |-> T,
     average_words_per_sentence |-> RoundedAverage(W, S, tie_up),
     average_syllables_per_word |-> RoundedAverage(T, W, tie_up)]

\* lines 94-97; the description is "Grade <reading_level_grade> (US Education System)"
Readability(fk10) ==
    [flesch_kincaid_grade_level |-> fk10,
     reading_level_grade |-> RoundGrade(fk10)]

\* lines 98-103
ProficiencyAnalysis(fk10, academic_words_list) ==
    [estimated_cefr_level |-> Proficiency(fk10).estimated_cefr_level,
     estimated_ielts_band |-> Proficiency(fk10).estimated_ielts_band,
     academic_vocabulary_count |-> Len(academic_words_list),
     academic_vocabulary_extracted |-> Sample(academic_words_list)]

\* an HTTPException
HTTPException(status_code, wrapper, cause) ==
    [status |-> "error", status_code |-> status_code,
     wrapper |-> wrapper, cause |-> cause]

\* lines 46-104, the try block from the parsed words and sentences on: what it
\* returns, or the exception it raises
TryBlock(ws, S, seed, tie_up) ==
    IF Len(ws) = 0 \/ S = 0
    THEN [raised |-> "ValueError",
          message |-> "No valid words or sentences found."]
    ELSE LET W == Len(ws)
             T == SumSyllables(ws)
             fk_grade == FkGrade(W, S, T, tie_up)
             academic_words_list == ListOfSet(AcademicWords(ws), ws, seed)
         IN [raised |-> "no",
             value |-> [status |-> "success",
                        metrics |-> Metrics(W, S, T, tie_up),
                        scientific_readability |-> Readability(fk_grade),
                        proficiency_analysis |->
                            ProficiencyAnalysis(fk_grade, academic_words_list)]]

\* lines 41 and 106-107: every exception of the try block leaves as a 500
Guarded(outcome) ==
    IF outcome.raised = "no" THEN outcome.value
    ELSE HTTPException(500, "Analysis engine error: ", outcome.message)

\* lines 35-107
analyze_text(s, seed, tie_up) ==
    IF TooShort(s)
    THEN HTTPException(400, "",
        "Text is too short. Please provide a substantive paragraph or essay for accurate analysis.")
    ELSE Guarded(TryBlock(FindWords(s), Len(Sentences(s)), seed, tie_up))

-----------------------------------------------------------------------------
(* SpecSyllables: count_syllables applied to one word *)

MaxWordLen == 5

\* letters the enumerated words are spelled with: vowels, consonants, capitals
SyllableLetters == {"a", "e", "l", "t", "E", "L"}

cat == <<"c","a","t">>
table == <<"t","a","b","l","e">>
beautiful == <<"b","e","a","u","t","i","f","u","l">>

SeqsUpTo(S, n) == UNION {[1..k -> S] : k \in 1..n}

SyllableWords == SeqsUpTo(SyllableLetters, MaxWordLen) \cup {cat, table, beautiful}

NoSyllables == [called |-> FALSE]

InitSyllables ==
    /\ word \in SyllableWords
    /\ syllables = NoSyllables
    /\ text = <<>> /\ words = <<>>
    /\ word_count = 0 /\ sentence_count = 0 /\ total_syllables = 0
    /\ hash_seed = [rot |-> 0, rev |-> FALSE]
    /\ fp_tie_up = FALSE
    /\ calls = 0 /\ response = None /\ previous = None

\* one call count_syllables(word)
CountSyllables ==
    /\ ~syllables.called
    /\ syllables' = [called |-> TRUE,
                     early_return |-> Len(word) <= 3,
                     running |-> IF Len(word) <= 3 THEN 0 ELSE RunningCount(word),
                     result |-> count_syllables(word)]
    /\ UNCHANGED <<text, words, word_count, sentence_count, total_syllables,
                   word, hash_seed, fp_tie_up, calls, response, previous>>

NextSyllables == CountSyllables

SpecSyllables == InitSyllables /\ [][NextSyllables]_vars

-----------------------------------------------------------------------------
(* The process: requests served one after the other *)

MaxCalls == 2
MaxRot == 2

HashSeeds == [rot : 0..MaxRot, rev : BOOLEAN]

Unused ==
    /\ word = <<>> /\ syllables = NoSyllables

\* the handler serves the request; words and sentence_count are its locals of
\* lines 43-47, which it reaches when the text is long enough
AnalyzeText ==
    /\ calls < MaxCalls
    /\ previous' = response
    /\ response' = analyze_text(text, hash_seed, fp_tie_up)
    /\ IF TooShort(text)
       THEN UNCHANGED <<words, sentence_count>>
       ELSE /\ words' = FindWords(text)
            /\ sentence_count' = Len(Sentences(text))
    /\ calls' = calls + 1
    /\ UNCHANGED <<text, word_count, total_syllables,
                   word, syllables, hash_seed, fp_tie_up>>

\* the server process is started anew: another hash seed
Restart ==
    /\ calls > 0
    /\ hash_seed' \in HashSeeds \ {hash_seed}
    /\ UNCHANGED <<text, words, word_count, sentence_count, total_syllables,
                   word, syllables, fp_tie_up, calls, response, previous>>

-----------------------------------------------------------------------------
(* Spec: analyze_text on a text *)

MaxCore == 3

TextChars == {"a", "E", "1", "_", " ", ".", "-"}

PadSpaces == [i \in 1..20 |-> " "]
PadDigits == [i \in 1..20 |-> "7"]
PadTerminators == [i \in 1..20 |-> IF i % 3 = 0 THEN "?" ELSE IF i % 3 = 1 THEN "." ELSE "!"]
PadProse == <<" ","c","o","n","s","i","d","e","r","a","b","l","e"," ","u","n","d","e","r","s","t","a","n","d","i","n","g"," ","d","e","v","e","l","o","p","s",".">>

Pads == {PadSpaces, PadDigits, PadTerminators, PadProse}

\* a short free part followed by a long fixed one
Texts == {core \o pad : core \in SeqsUpTo(TextChars, MaxCore) \cup {<<>>}, pad \in Pads}

InitText(texts) ==
    /\ text \in texts
    /\ hash_seed \in HashSeeds
    /\ fp_tie_up \in BOOLEAN
    /\ words = <<>> /\ word_count = 0 /\ sentence_count = 0 /\ total_syllables = 0
    /\ Unused
    /\ calls = 0 /\ response = None /\ previous = None

Init == InitText(Texts)

\* one request is served
FirstCall == calls = 0 /\ AnalyzeText

Next == FirstCall

Spec == Init /\ [][Next]_vars

-----------------------------------------------------------------------------
(* SpecRepeat: the same text analysed again, in the same process or the next *)

RepeatCore == 1

RepeatTexts == {core \o PadProse : core \in SeqsUpTo(TextChars, RepeatCore) \cup {<<>>}}

InitRepeat == InitText(RepeatTexts)

NextRepeat == AnalyzeText \/ Restart

SpecRepeat == InitRepeat /\ [][NextRepeat]_vars

-----------------------------------------------------------------------------
(* SpecWords: the try block on a word list and a sentence count *)

MaxWords == 17
MaxRepeat == 2
MaxSentences == 2

Pool ==
  <<<<"t","h","e">>,
     <<"a","n","i","m","a","l">>,
     <<"t","h","r","o","u","g","h">>,
     <<"s","t","r","e","n","g","t","h">>,
     <<"s","c","h","e","d","u","l","e">>,
     <<"s","t","r","e","n","g","t","h","s">>,
     <<"e","d","u","c","a","t","e">>,
     <<"a","n","a","l","y","s","i","s">>,
     <<"c","o","n","s","i","d","e","r","a","b","l","e">>,
     <<"u","n","d","e","r","s","t","a","n","d","i","n","g">>,
     <<"d","e","v","e","l","o","p","s">>,
     <<"h","y","p","o","t","h","e","s","i","s">>,
     <<"m","e","t","h","o","d","o","l","o","g","y">>,
     <<"s","i","g","n","i","f","i","c","a","n","t">>,
     <<"t","h","e","o","r","e","t","i","c","a","l">>,
     <<"f","r","a","m","e","w","o","r","k">>,
     <<"e","m","p","i","r","i","c","a","l">>,
     <<"p","a","r","a","d","i","g","m">>,
     <<"c","o","m","p","r","e","h","e","n","s","i","v","e">>,
     <<"s","u","b","s","t","a","n","t","i","a","l">>,
     <<"d","e","m","o","n","s","t","r","a","t","e">>,
     <<"p","h","e","n","o","m","e","n","o","n">>>>

\* n words of the pool from the s-th on, going round
Window(s, n) == [i \in 1..n |-> Pool[((s - 1 + i - 1) % Len(Pool)) + 1]]

\* a run of the pool followed by its own beginning again
WordLists ==
    {Window(s, n) \o Window(s, r) :
        s \in 1..Len(Pool), n \in 1..MaxWords, r \in 0..MaxRepeat}

InitWords ==
    /\ words \in WordLists
    /\ sentence_count \in 1..MaxSentences
    /\ hash_seed \in HashSeeds
    /\ fp_tie_up \in BOOLEAN
    /\ text = <<>> /\ word_count = 0 /\ total_syllables = 0
    /\ Unused
    /\ calls = 0 /\ response = None /\ previous = None

\* lines 46-107 on the parsed words and sentences
AnalyzeWords ==
    /\ calls = 0
    /\ previous' = response
    /\ response' = Guarded(TryBlock(words, sentence_count, hash_seed, fp_tie_up))
    /\ calls' = calls + 1
    /\ UNCHANGED <<text, words, word_count, sentence_count, total_syllables,
                   word, syllables, hash_seed, fp_tie_up>>

NextWords == AnalyzeWords

SpecWords == InitWords /\ [][NextWords]_vars

-----------------------------------------------------------------------------
(* SpecCounts: lines 58-62 and 74-97 on the three counts *)

MaxWordCount == 12
MaxSentenceCount == 4
MaxSyllablesPerWord == 3

\* the counts of the documented example
ExampleCounts == [W |-> 100, S |-> 5, T |-> 150]

CountInputs ==
    {[W |-> w, S |-> s, T |-> t] :
        w \in 1..MaxWordCount, s \in 1..MaxSentenceCount,
        t \in 1..(MaxWordCount * MaxSyllablesPerWord)}

InitCounts ==
    /\ \E c \in {i \in CountInputs : i.W <= i.T /\ i.T <= i.W * MaxSyllablesPerWord}
                \cup {ExampleCounts} :
          /\ word_count = c.W
          /\ sentence_count = c.S
          /\ total_syllables = c.T
    /\ fp_tie_up \in BOOLEAN
    /\ hash_seed = [rot |-> 0, rev |-> FALSE]
    /\ text = <<>> /\ words = <<>>
    /\ Unused
    /\ calls = 0 /\ response = None /\ previous = None

ScoreCounts ==
    /\ calls = 0
    /\ previous' = response
    /\ response' =
         [status |-> "scored",
          metrics |-> Metrics(word_count, sentence_count, total_syllables, fp_tie_up),
          scientific_readability |->
              Readability(FkGrade(word_count, sentence_count, total_syllables, fp_tie_up)),
          proficiency |->
              Proficiency(FkGrade(word_count, sentence_count, total_syllables, fp_tie_up))]
    /\ calls' = calls + 1
    /\ UNCHANGED <<text, words, word_count, sentence_count, total_syllables,
                   word, syllables, hash_seed, fp_tie_up>>

NextCounts == ScoreCounts

SpecCounts == InitCounts /\ [][NextCounts]_vars

-----------------------------------------------------------------------------
(* Properties *)

Served == calls > 0

\* the handler got past line 38 and parsed the text
Parsed == Served /\ ~TooShort(text)

Succeeded == Served /\ response.status = "success"

\* the number of maximal runs of ASCII letters
LetterRuns(s) ==
    Cardinality({i \in DOMAIN s : IsLetter(s[i]) /\ (i = 1 \/ ~IsLetter(s[i - 1]))})

\* C1: a text that passes the length check and holds a letter is analysed, and
\* total_words is its number of maximal runs of ASCII letters, whatever
\* non-letters stand next to them.
C1_WordsAreLetterRuns ==
    (Parsed /\ LetterRuns(text) >= 1) =>
        /\ response.status = "success"
        /\ response.metrics.total_words = LetterRuns(text)

\* the error kind a caller can tell from a response: the status code and the
\* wrapper of the detail
ErrorTag(r) ==
    IF r.status # "error" THEN "none"
    ELSE IF r.status_code = 400 THEN "InputTooShortError"
    ELSE IF r.wrapper = "Analysis engine error: " THEN "InternalComputationError"
    ELSE "NoContentError"

\* C2: a text that passes the length check and parses to no word or no sentence
\* is answered with NoContentError, a kind of its own beside InputTooShortError
\* and the catch-all InternalComputationError.
C2_NoContentOwnTag ==
    (Parsed /\ (Len(words) = 0 \/ sentence_count = 0)) =>
        ErrorTag(response) = "NoContentError"

\* C3, as stated: count_syllables gives 1 for "cat", 1 for "table" and 3 for
\* "beautiful".
C3_Fixtures ==
    syllables.called =>
        /\ word = cat => syllables.result = 1
        /\ word = table => syllables.result = 1
        /\ word = beautiful => syllables.result = 3

\* C3, amended: count_syllables gives 1 for "cat", 2 for "table" (the silent-e
\* rule takes one of its two vowel groups and the "-le" rule gives it back) and
\* 3 for "beautiful".
C3_FixturesAmended ==
    syllables.called =>
        /\ word = cat => syllables.result = 1
        /\ word = table => syllables.result = 2
        /\ word = beautiful => syllables.result = 3

C3_TableCounted == syllables.called /\ word = table

\* C4: for every non-empty word of ASCII letters count_syllables returns at
\* least 1, and the running count is not negative after the silent-e decrement.
C4_AtLeastOne ==
    syllables.called =>
        /\ syllables.result >= 1
        /\ ~syllables.early_return => syllables.running >= 0

\* a longer word whose only vowel group is its final e: the decrement takes the
\* count to 0 and the floor returns 1
C4_SilentEToZero ==
    /\ syllables.called
    /\ ~syllables.early_return
    /\ EndsWith(Lower(word), <<"e">>)
    /\ syllables.running = 0
    /\ syllables.result = 1

Take(s, n) == SubSeq(s, 1, IF Len(s) < n THEN Len(s) ELSE n)

\* C5: academic_vocabulary_extracted is the first min(15, n) of the distinct
\* academic words in the order of their first occurrence in the word list.
C5_FirstSeenOrder ==
    Succeeded =>
        response.proficiency_analysis.academic_vocabulary_extracted
            = Take(FirstSeenFrom(words, AcademicWords(words), {}), 15)

\* C6: two calls with the same text have the same outcome, field by field.
C6_SameOutcome == calls >= 2 => response = previous

Top == <<"C1/C2 (Advanced/Proficient)", "7.5+">>
Middle == <<"B2 (Upper Intermediate)", "6.0 - 7.0">>
Base == <<"B1 (Intermediate)", "5.0 - 5.5">>

Scored == Served /\ response.status = "scored"

\* C7: the pair of labels follows the reported grade with closed lower
\* boundaries: 12.0 and above the top pair, 9.0 up to 12.0 the middle pair,
\* below 9.0 the base pair; both labels always of the same tier.
C7_TiersByGrade ==
    Scored =>
        LET grade == response.scientific_readability.flesch_kincaid_grade_level
            pair == <<response.proficiency.estimated_cefr_level,
                      response.proficiency.estimated_ielts_band>>
        IN /\ grade >= 120 => pair = Top
           /\ (grade >= 90 /\ grade < 120) => pair = Middle
           /\ grade < 90 => pair = Base

\* a grade of exactly 12.0 in the top tier
C7_TwelveIsTop ==
    /\ Scored
    /\ response.scientific_readability.flesch_kincaid_grade_level = 120
    /\ response.proficiency.estimated_cefr_level = Top[1]

Abs(x) == IF x < 0 THEN -x ELSE x

\* C8: for positive counts W, S, T the grade is
\* max(0, round(0.39*(W/S) + 11.8*(T/W) - 15.59, 1)) on the unrounded averages:
\* never negative, within half a tenth of the exact value when positive, 0 only
\* when the exact value rounds to 0 or below; 9.9 for W=100, S=5, T=150.
\* With x = n / d the exact value, d = 100*S*W.
C8_GradeFormula ==
    Scored =>
        LET W == word_count
            S == sentence_count
            T == total_syllables
            n == 39 * W * W + 1180 * T * S - 1559 * S * W
            d == 100 * S * W
            grade == response.scientific_readability.flesch_kincaid_grade_level
        IN /\ grade >= 0
           /\ grade > 0 => 2 * Abs(grade * d - 10 * n) <= d
           /\ grade = 0 => 20 * n <= d
           /\ (W = 100 /\ S = 5 /\ T = 150) => grade = 99

C8_ExampleScored ==
    /\ Scored
    /\ word_count = 100 /\ sentence_count = 5 /\ total_syllables = 150
    /\ response.scientific_readability.flesch_kincaid_grade_level = 99

\* C9: academic_vocabulary_count is the number of distinct words of 9 letters
\* or more, or of 7 letters or more with 3 syllables or more; the sample's cut
\* at 15 does not touch it and it is at most the number of distinct words.
C9_CountOfDistinct ==
    Succeeded =>
        LET distinct == Range(words)
            count == response.proficiency_analysis.academic_vocabulary_count
        IN /\ count = Cardinality({w \in distinct :
                        Len(w) >= 9 \/ (Len(w) >= 7 /\ count_syllables(w) >= 3)})
           /\ count <= Cardinality(distinct)
           /\ Len(response.proficiency_analysis.academic_vocabulary_extracted)
                 = IF count < 15 THEN count ELSE 15

\* more academic words than the sample holds
C9_CountBeyondSample ==
    /\ Succeeded
    /\ response.proficiency_analysis.academic_vocabulary_count > 15
    /\ Len(response.proficiency_analysis.academic_vocabulary_extracted) = 15

NoContentRaised ==
    /\ response.status = "error"
    /\ response.cause = "No valid words or sentences found."

\* C10: a parsed text with a word has a sentence, so the guard of line 50 fires
\* exactly when there is no word.
C10_WordsHaveSentence ==
    Parsed =>
        /\ Len(words) >= 1 => sentence_count >= 1
        /\ NoContentRaised <=> Len(words) = 0

\* the converse fails: digits only, one sentence and no word
C10_DigitsOnly ==
    /\ Parsed
    /\ Range(text) \subseteq Digits
    /\ sentence_count = 1
    /\ Len(words) = 0

=============================================================================
